---- MODULE Spec2Model ----
(***************************************************************************)
(* Model of jaxspec's spectral-model composition engine                    *)
(* (src/src/jaxspec/model/abc.py): the operation graph built by            *)
(* SpectralModel.from_component and SpectralModel.compose, the namespace   *)
(* resolver build_namespace and the flux evaluation.                       *)
(*                                                                         *)
(* Python objects live in `heap` and are addressed by reference, so that   *)
(* "builds a new graph" and "changes a graph in place" are different       *)
(* things.  A networkx DiGraph is modelled with the orders networkx keeps: *)
(* the insertion order of the nodes and, for every node, the insertion     *)
(* order of its successors and of its predecessors.                        *)
(***************************************************************************)
EXTENDS Integers, Sequences, FiniteSets, TLC

VARIABLES heap, models, nextId, last, bins, result, site, text, parsed, pha,
          observation

vars ==
    <<heap, models, nextId, last, bins, result, site, text, parsed, pha,
      observation>>

(***************************************************************************)
(* Bounds of the model.                                                    *)
(***************************************************************************)
\* number of SpectralModel objects built in one run of the builder
MaxModels == 4

\* number of SpectralModel objects built in one run in which
\* build_namespace is called again on them
MaxResolved == 3

\* number of SpectralModel objects built in one run in which a product of
\* two components is evaluated
MaxProduct == 3

\* number of SpectralModel objects built in one run of products of line and
\* absorption components
MaxLines == 5

\* number of SpectralModel objects built in one run that also uses a
\* component class of the caller
MaxTyped == 3

\* number of channels of a PHA dataset, and the most counts in a channel
MaxChannels == 3
MaxCounts == 2

\* number of SpectralModel objects built in one run that renders and
\* parses expressions
MaxString == 3

\* number of SpectralModel objects built in one run that fits them
MaxFit == 3

\* number of SpectralModel objects built in one run in which the flux is
\* evaluated on any bins and with any parameter values
MaxBins == 2

(***************************************************************************)
(* Small helpers on sequences and sets.                                    *)
(***************************************************************************)
Range(s) == {s[i] : i \in 1..Len(s)}

Contains(s, x) == \E i \in 1..Len(s) : s[i] = x

AppendNew(s, x) == IF Contains(s, x) THEN s ELSE Append(s, x)

Min(S) == CHOOSE x \in S : \A y \in S : x <= y
Max(S) == CHOOSE x \in S : \A y \in S : x >= y

\* F applied to the value of e.  The value is computed before F starts, as
\* Python computes the argument of a call before the call.
Then(e, F(_)) == CHOOSE y \in {F(x) : x \in {e}} : TRUE

\* the function f with f[n] set to v, n added to its domain if need be
Extend(f, n, v) == [m \in DOMAIN f \cup {n} |-> IF m = n THEN v ELSE f[m]]

(***************************************************************************)
(* The component registry.  A component class has a lowercased name, a     *)
(* type and a number of scalar parameters.                                 *)
(***************************************************************************)
Kinds == {"powerlaw", "gauss", "tbabs"}

\* a component class a caller defines with a type of its own; it has a
\* continuum and one parameter, as Tbabs
CallerKind == "convolution"

ComponentType(kind) ==
    IF kind = "tbabs" THEN "multiplicative"
    ELSE IF kind = CallerKind THEN "convolutive"
    ELSE "additive"

\* Tbabs has one parameter, the column density
TbabsParamCount == 1

\* the hk.get_parameter calls of each component
ParamCount(kind) ==
    CASE kind = "powerlaw" -> 2
      [] kind = "gauss"    -> 3
      [] OTHER             -> TbabsParamCount

(***************************************************************************)
(* Node identifiers.  "out" is the sink; every other node gets a fresh     *)
(* identifier (uuid4), modelled by a counter.                              *)
(***************************************************************************)
OUT == 0

\* an attribute a node does not carry
NoAttr == "none"
NoDepth == -1
NoName == <<>>

EmptyAttr ==
    [type |-> NoAttr, component_type |-> NoAttr, name |-> NoName,
     component |-> NoAttr, kwargs |-> NoAttr, depth |-> NoDepth,
     operation_type |-> NoAttr, function |-> NoAttr,
     operation_label |-> NoAttr]

\* dict.update: the attributes b carries replace those of a
UpdateAttr(a, b) ==
    [type            |-> IF b.type = NoAttr THEN a.type ELSE b.type,
     component_type  |-> IF b.component_type = NoAttr THEN a.component_type
                         ELSE b.component_type,
     name            |-> IF b.name = NoName THEN a.name ELSE b.name,
     component       |-> IF b.component = NoAttr THEN a.component
                         ELSE b.component,
     kwargs          |-> IF b.kwargs = NoAttr THEN a.kwargs ELSE b.kwargs,
     depth           |-> IF b.depth = NoDepth THEN a.depth ELSE b.depth,
     operation_type  |-> IF b.operation_type = NoAttr THEN a.operation_type
                         ELSE b.operation_type,
     function        |-> IF b.function = NoAttr THEN a.function
                         ELSE b.function,
     operation_label |-> IF b.operation_label = NoAttr THEN a.operation_label
                         ELSE b.operation_label]

(***************************************************************************)
(* networkx.DiGraph as a value: the nodes in insertion order, and for      *)
(* every node its successors, its predecessors and its attributes.         *)
(***************************************************************************)
EmptyGraph ==
    [nodes |-> <<>>, succ |-> <<>>, pred |-> <<>>, attr |-> <<>>]

NodeSet(g) == Range(g.nodes)

\* every (u, v) in the order DiGraph.edges iterates them
RECURSIVE EdgesFrom(_, _)
EdgesFrom(g, i) ==
    IF i > Len(g.nodes) THEN <<>>
    ELSE [k \in 1..Len(g.succ[g.nodes[i]]) |->
            <<g.nodes[i], g.succ[g.nodes[i]][k]>>]
         \o EdgesFrom(g, i + 1)

Edges(g) == EdgesFrom(g, 1)

\* DiGraph.add_node(n, **a)
AddNode(g, n, a) ==
    IF Contains(g.nodes, n)
    THEN [g EXCEPT !.attr[n] = UpdateAttr(@, a)]
    ELSE [nodes |-> Append(g.nodes, n),
          succ  |-> Extend(g.succ, n, <<>>),
          pred  |-> Extend(g.pred, n, <<>>),
          attr  |-> Extend(g.attr, n, a)]

\* the adjacency entries of the edge (u, v), both end points being nodes
LinkEdge(g, u, v) ==
    [g EXCEPT !.succ[u] = AppendNew(@, v), !.pred[v] = AppendNew(@, u)]

\* DiGraph.add_edge(u, v): missing end points are added without attributes
AddEdge(g, u, v) ==
    LinkEdge(AddNode(AddNode(g, u, EmptyAttr), v, EmptyAttr), u, v)

RECURSIVE AddNodesFrom(_, _, _)
AddNodesFrom(g, h, i) ==
    IF i > Len(h.nodes) THEN g
    ELSE AddNodesFrom(AddNode(g, h.nodes[i], h.attr[h.nodes[i]]), h, i + 1)

RECURSIVE AddEdgesFrom(_, _, _)
AddEdgesFrom(g, es, i) ==
    IF i > Len(es) THEN g
    ELSE AddEdgesFrom(AddEdge(g, es[i][1], es[i][2]), es, i + 1)

\* DiGraph.in_degree(n)
InDegree(g, n) == Len(g.pred[n])

(***************************************************************************)
(* networkx functions the model builder uses.                              *)
(***************************************************************************)
\* DiGraph.copy(): nodes in order, then the edges in DiGraph.edges order
GraphCopy(g) ==
    Then(AddNodesFrom(EmptyGraph, g, 1),
         LAMBDA c : AddEdgesFrom(c, Edges(g), 1))

\* nx.compose(G, H): the nodes of G, then those of H, then the edges of G,
\* then those of H; the attributes of H take precedence
NxCompose(G, H) ==
    Then(Then(Then(AddNodesFrom(EmptyGraph, G, 1),
                   LAMBDA R : AddNodesFrom(R, H, 1)),
              LAMBDA R : AddEdgesFrom(R, Edges(G), 1)),
         LAMBDA R : AddEdgesFrom(R, Edges(H), 1))

Relabel(n, old, new) == IF n = old THEN new ELSE n

RelabelledNodes(g, old, new) ==
    [nodes |-> [i \in 1..Len(g.nodes) |-> Relabel(g.nodes[i], old, new)],
     succ  |-> [m \in {Relabel(n, old, new) : n \in NodeSet(g)} |-> <<>>],
     pred  |-> [m \in {Relabel(n, old, new) : n \in NodeSet(g)} |-> <<>>],
     attr  |-> [m \in {Relabel(n, old, new) : n \in NodeSet(g)} |->
                  IF m = new THEN g.attr[old] ELSE g.attr[m]]]

RelabelledEdges(es, old, new) ==
    [i \in 1..Len(es) |->
       <<Relabel(es[i][1], old, new), Relabel(es[i][2], old, new)>>]

\* nx.relabel_nodes(G, {old: new}), copy=True: a new graph with the nodes
\* in the same order and the edges added in DiGraph.edges order
RelabelNodes(g, old, new) ==
    Then(RelabelledNodes(g, old, new),
         LAMBDA H : AddEdgesFrom(H, RelabelledEdges(Edges(g), old, new), 1))

\* nx.set_node_attributes(G, {n: a}): a node the graph lacks is skipped
SetNodeAttributes(g, n, a) ==
    IF Contains(g.nodes, n)
    THEN [g EXCEPT !.attr[n] = UpdateAttr(@, a)]
    ELSE g

\* nx.topological_sort: the generations of nx.topological_generations, one
\* after the other.  Within a generation the nodes keep the order in which
\* their in-degree reached zero, which follows the insertion orders.
Visit(r, c) ==
    [indeg |-> [r.indeg EXCEPT ![c] = @ - 1],
     zero  |-> IF r.indeg[c] = 1 THEN Append(r.zero, c) ELSE r.zero]

RECURSIVE VisitChildren(_, _, _)
VisitChildren(children, k, r) ==
    IF k > Len(children) THEN r
    ELSE VisitChildren(children, k + 1, Visit(r, children[k]))

RECURSIVE VisitGeneration(_, _, _, _)
VisitGeneration(g, gen, i, r) ==
    IF i > Len(gen) THEN r
    ELSE VisitGeneration(g, gen, i + 1, VisitChildren(g.succ[gen[i]], 1, r))

RECURSIVE Generations(_, _)
Generations(g, r) ==
    IF r.zero = <<>> THEN <<>>
    ELSE r.zero
         \o Generations(g, VisitGeneration(g, r.zero, 1,
                                           [indeg |-> r.indeg, zero |-> <<>>]))

IsZeroInDegree(g, n) == InDegree(g, n) = 0

TopologicalSort(g) ==
    Generations(g,
      [indeg |-> [n \in NodeSet(g) |-> InDegree(g, n)],
       zero  |-> SelectSeq(g.nodes, LAMBDA n : IsZeroInDegree(g, n))])

\* nx.shortest_path_length(G, n, target) in a graph without cycles;
\* Unreachable stands for NetworkXNoPath
Unreachable == 99

OneMore(ds) ==
    IF ds = {} THEN Unreachable
    ELSE IF Min(ds) = Unreachable THEN Unreachable ELSE 1 + Min(ds)

RECURSIVE ShortestPathLength(_, _, _)
ShortestPathLength(g, n, target) ==
    IF n = target THEN 0
    ELSE OneMore({ShortestPathLength(g, m, target) : m \in Range(g.succ[n])})

RECURSIVE LongestFrom(_, _)
LongestFrom(g, n) ==
    IF g.succ[n] = <<>> THEN 0
    ELSE 1 + Max({LongestFrom(g, m) : m \in Range(g.succ[n])})

\* nx.dag_longest_path_length(G)
DagLongestPathLength(g) ==
    IF g.nodes = <<>> THEN 0
    ELSE Max({LongestFrom(g, n) : n \in NodeSet(g)})

\* the first successor of n that lies on a shortest path to target
RECURSIVE NextHop(_, _, _, _, _)
NextHop(g, n, target, d, j) ==
    IF ShortestPathLength(g, g.succ[n][j], target) = d - 1
    THEN g.succ[n][j]
    ELSE NextHop(g, n, target, d, j + 1)

\* nx.shortest_path(graph, source, target) as the list of its nodes
RECURSIVE ShortestPath(_, _, _)
ShortestPath(g, n, target) ==
    IF n = target THEN <<n>>
    ELSE <<n>>
         \o ShortestPath(g,
              NextHop(g, n, target, ShortestPathLength(g, n, target), 1),
              target)

(***************************************************************************)
(* The numeric domain.  Energies are integers whose logarithm (base 2) is  *)
(* an integer.  The bin edges are even, so that every trapezoid and every  *)
(* mean energy is an integer too.  The parameters of a component are       *)
(* summed up in one integer p.                                             *)
(***************************************************************************)
\* jnp.log of a bin edge
Log(e) ==
    CASE e = 1  -> 0
      [] e = 2  -> 1
      [] e = 4  -> 2
      [] e = 8  -> 3
      [] e = 16 -> 4

\* Tbabs.continuum(e): the transmission at energy e
TbabsContinuum(p, e) == p + e

\* component(...).continuum(e): the flux density of a component at energy e,
\* p being the value of its parameters.  Powerlaw is norm * energy ** (-alpha)
\* with the index held at -1; Gauss returns zeros.
Continuum(kind, p, e) ==
    CASE kind = "powerlaw" -> p * e
      [] kind = "gauss"    -> 0
      [] OTHER             -> TbabsContinuum(p, e)

\* component(...).emission_lines(e_min, e_max): the analytic line flux of
\* the bin and its mean energy.  Gauss is norm * (cdf(e_max) - cdf(e_min))
\* with a cumulative distribution that grows linearly.
EmissionLines(kind, p, e_min, e_max) ==
    [flux |-> IF kind = "gauss" THEN p * (e_max - e_min) ELSE 0,
     mean |-> (e_min + e_max) \div 2]

\* the initial value haiku gives the parameters of a component
DefaultParam(kind) == 1

\* jnp.ones(10)
Ones == [i \in 1..10 |-> 1]

\* trapezoid(y, x, axis=0) of the two rows y = (y0, y1), x = (x0, x1)
Trapezoid(y0, y1, x0, x1) == ((x1 - x0) * (y0 + y1)) \div 2

(***************************************************************************)
(* SpectralModel.flux.  The result is [ok, error, flux]: a Python          *)
(* exception ends the evaluation with ok = FALSE.                          *)
(***************************************************************************)
Raised(e) == [ok |-> FALSE, error |-> e, flux |-> <<>>]

Returned(v) == [ok |-> TRUE, error |-> NoAttr, flux |-> v]

\* operands read as the first and the last in-edge
OperandsFirstLast(g, n) ==
    IF Len(g.pred[n]) < 1 THEN Raised("IndexError")
    ELSE Returned(<<g.pred[n][1], g.pred[n][Len(g.pred[n])]>>)

\* the two operands of an operation node: list(graph.in_edges(n))[0][0] and
\* list(graph.in_edges(n))[1][0]
Operands(g, n) ==
    IF Len(g.pred[n]) < 2 THEN Raised("IndexError")
    ELSE Returned(<<g.pred[n][1], g.pred[n][2]>>)

\* both operators given the lambda of __add__
ApplyAlwaysAdd(function, x, y) == x + y

\* node["function"]: the lambdas of __add__ and __mul__
Apply(function, x, y) ==
    IF function = "add" THEN x + y ELSE x * y

\* continuum[node_id] of a component node
ComponentContinuum(node, pars, energies) ==
    [k \in 1..Len(energies) |->
       Continuum(node.component, pars[node.name], energies[k])]

\* continuum[node_id] of an operation node
OperationContinuum(node, c1, c2) ==
    [k \in 1..Len(c1) |-> Apply(node.function, c1[k], c2[k])]

\* the loop over nx.dag.topological_sort(self.graph): continuum[node_id]
\* for every component and operation node
RECURSIVE ContinuumPass(_, _, _, _, _, _)
OperationStep(g, pars, energies, order, i, continuum, ops) ==
    IF ~ops.ok THEN ops
    ELSE IF ops.flux[1] \notin DOMAIN continuum
            \/ ops.flux[2] \notin DOMAIN continuum
    THEN Raised("KeyError")
    ELSE ContinuumPass(g, pars, energies, order, i + 1,
           Extend(continuum, order[i],
                  OperationContinuum(g.attr[order[i]],
                                     continuum[ops.flux[1]],
                                     continuum[ops.flux[2]])))

ContinuumPass(g, pars, energies, order, i, continuum) ==
    IF i > Len(order) THEN Returned(continuum)
    ELSE IF g.attr[order[i]].type = "component"
    THEN IF g.attr[order[i]].name \notin DOMAIN pars
         THEN Raised("ValueError")
         ELSE ContinuumPass(g, pars, energies, order, i + 1,
                Extend(continuum, order[i],
                       ComponentContinuum(g.attr[order[i]], pars, energies)))
    ELSE IF g.attr[order[i]].type = "operation"
    THEN OperationStep(g, pars, energies, order, i, continuum,
                       Operands(g, order[i]))
    ELSE ContinuumPass(g, pars, energies, order, i + 1, continuum)

\* SpectralModel.find_multiplicative_components
RECURSIVE FindMultiplicativeComponents(_, _)
RECURSIVE FindInPredecessors(_, _, _)
FindInPredecessors(g, predecessors, i) ==
    IF i > Len(predecessors) THEN <<>>
    ELSE (IF g.attr[predecessors[i]].component_type = "multiplicative"
          THEN <<predecessors[i]>>
          ELSE IF g.attr[predecessors[i]].operation_type = "mul"
          THEN FindMultiplicativeComponents(g, predecessors[i])
          ELSE <<>>)
         \o FindInPredecessors(g, predecessors, i + 1)

FindMultiplicativeComponents(g, n) ==
    IF g.attr[n].operation_type = "mul"
    THEN FindInPredecessors(g, g.pred[n], 1)
    ELSE <<>>

\* the multiplicative nodes collected along the reversed path
RECURSIVE MultiplicativeNodes(_, _, _)
MultiplicativeNodes(g, path, i) ==
    IF i < 1 THEN <<>>
    ELSE FindMultiplicativeComponents(g, path[i])
         \o MultiplicativeNodes(g, path, i - 1)

\* flux_from_component *= runtime_modules[mul_node].continuum(mean_energy)
RECURSIVE ScaleBy(_, _, _, _, _)
ScaleBy(g, pars, mul_nodes, i, lines) ==
    IF i > Len(mul_nodes) THEN lines.flux
    ELSE Continuum(g.attr[mul_nodes[i]].component,
                   pars[g.attr[mul_nodes[i]].name], lines.mean)
         * ScaleBy(g, pars, mul_nodes, i + 1, lines)

\* root_nodes: in-degree 0 and component_type "additive", in node order
IsRootNode(g, n) ==
    InDegree(g, n) = 0 /\ g.attr[n].component_type = "additive"

RootNodes(g) == SelectSeq(g.nodes, LAMBDA n : IsRootNode(g, n))

\* what a scaled line flux adds to fine_structures_flux
LineTerm(scaled, e_min, e_max, energy_flux) ==
    IF energy_flux
    THEN Trapezoid(scaled * e_min, scaled * e_max, Log(e_min), Log(e_max))
    ELSE scaled

\* the contribution of one root node to the fine-structure flux of each bin
LineFlux(g, pars, node, mul_nodes, e_low, e_high, energy_flux) ==
    [k \in 1..Len(e_low) |->
       LineTerm(ScaleBy(g, pars, mul_nodes, 1,
                        EmissionLines(node.component, pars[node.name],
                                      e_low[k], e_high[k])),
                e_low[k], e_high[k], energy_flux)]

PathOf(g, root) == ShortestPath(g, root, OUT)

MultiplicativeAlong(g, path) == MultiplicativeNodes(g, path, Len(path))

AddBins(a, b) == [k \in 1..Len(a) |-> a[k] + b[k]]

RECURSIVE FineStructuresFlux(_, _, _, _, _, _, _)
FineStructuresFlux(g, pars, roots, i, e_low, e_high, energy_flux) ==
    IF i > Len(roots) THEN [k \in 1..Len(e_low) |-> 0]
    ELSE AddBins(
           LineFlux(g, pars, g.attr[roots[i]],
                    MultiplicativeAlong(g, PathOf(g, roots[i])),
                    e_low, e_high, energy_flux),
           FineStructuresFlux(g, pars, roots, i + 1, e_low, e_high,
                              energy_flux))

\* continuum_flux of bin k from the curve flux_1D of the sink's predecessor
ContinuumFlux(flux_1D, e_low, e_high, k, energy_flux) ==
    IF energy_flux
    THEN Trapezoid(flux_1D[k] * e_low[k] * e_low[k],
                   flux_1D[k + 1] * e_high[k] * e_high[k],
                   Log(e_low[k]), Log(e_high[k]))
    ELSE Trapezoid(flux_1D[k] * e_low[k], flux_1D[k + 1] * e_high[k],
                   Log(e_low[k]), Log(e_high[k]))

\* return continuum_flux + fine_structures_flux
TotalFlux(flux_1D, fine, e_low, e_high, energy_flux) ==
    Returned([k \in 1..Len(e_low) |->
                ContinuumFlux(flux_1D, e_low, e_high, k, energy_flux)
                + fine[k]])

\* flux after the continuum loop
FluxAfterPass(g, pars, e_low, e_high, energy_flux, pass) ==
    IF ~pass.ok THEN pass
    ELSE IF Len(g.pred[OUT]) < 1 THEN Raised("IndexError")
    ELSE IF g.pred[OUT][1] \notin DOMAIN pass.flux THEN Raised("KeyError")
    ELSE IF \E n \in NodeSet(g) :
              IsRootNode(g, n) /\ ShortestPathLength(g, n, OUT) = Unreachable
    THEN Raised("NetworkXNoPath")
    ELSE TotalFlux(pass.flux[g.pred[OUT][1]],
                   FineStructuresFlux(g, pars, RootNodes(g), 1, e_low, e_high,
                                      energy_flux),
                   e_low, e_high, energy_flux)

Flux(g, pars, e_low, e_high, energy_flux) ==
    IF Len(e_high) = 0 THEN Raised("IndexError")
    ELSE Then(Then(TopologicalSort(g),
                   LAMBDA order :
                     ContinuumPass(g, pars, e_low \o <<e_high[Len(e_high)]>>,
                                   order, 1, <<>>)),
              LAMBDA pass :
                FluxAfterPass(g, pars, e_low, e_high, energy_flux, pass))

(***************************************************************************)
(* Objects.  heap[r] is the object with reference r: a DiGraph or a dict.  *)
(* A SpectralModel holds the references of its raw_graph, graph and labels.*)
(***************************************************************************)
Obj(tag, v) == [tag |-> tag, v |-> v]

\* a new object: the heap with it, and its reference
New(h, tag, v) == [heap |-> Append(h, Obj(tag, v)), ref |-> Len(h) + 1]

\* a count that finds no earlier occurrence
CountNothing(s, x) == 0

\* a count of every name met so far, whatever the kind
CountAll(s, x) == Len(s)

\* name_space.count(name)
Count(s, x) == Cardinality({i \in 1..Len(s) : s[i] = x})

\* the loop of build_namespace over the topological order, name_space
\* being the names met so far
RECURSIVE AssignNames(_, _, _, _)
AssignNames(new_graph, order, i, name_space) ==
    IF i > Len(order) THEN new_graph
    ELSE IF new_graph.attr[order[i]].type = "component"
    THEN AssignNames(
           SetNodeAttributes(new_graph, order[i],
             [EmptyAttr EXCEPT !.name =
                Append(new_graph.attr[order[i]].name,
                       Count(Append(name_space,
                                    new_graph.attr[order[i]].name),
                             new_graph.attr[order[i]].name))]),
           order, i + 1,
           Append(name_space, new_graph.attr[order[i]].name))
    ELSE AssignNames(new_graph, order, i + 1, name_space)

ResolveNames(new_graph) ==
    Then(TopologicalSort(new_graph),
         LAMBDA order : AssignNames(new_graph, order, 1, <<>>))

\* a resolver that works on raw_graph itself instead of a copy of it
BuildNamespaceInPlace(h, raw) ==
    [heap |-> [h EXCEPT ![raw].v = ResolveNames(@)], ref |-> raw]

\* SpectralModel.build_namespace
BuildNamespace(h, raw) ==
    Then(Then(GraphCopy(h[raw].v), ResolveNames),
         LAMBDA new_graph : New(h, "DiGraph", new_graph))

ComponentNodes(g) == {n \in NodeSet(g) : g.attr[n].type = "component"}

ModuleNames(g) == {g.attr[n].name : n \in ComponentNodes(g)}

\* the component class of the haiku module called nm
ModuleKind(g, nm) ==
    g.attr[CHOOSE n \in ComponentNodes(g) : g.attr[n].name = nm].component

\* the parameters haiku creates under hk.transform(...).init: one entry per
\* module name
DefaultPars(g) ==
    [nm \in ModuleNames(g) |-> DefaultParam(ModuleKind(g, nm))]

RECURSIVE SumParams(_, _)
SumParams(g, names) ==
    IF names = {} THEN 0
    ELSE ParamCount(ModuleKind(g, CHOOSE nm \in names : TRUE))
         + SumParams(g, names \ {CHOOSE nm \in names : TRUE})

\* hk.data_structures.tree_size(self.params)
TreeSize(g) == SumParams(g, ModuleNames(g))

NoModel ==
    [raw_graph |-> 0, graph |-> 0, labels |-> 0, n_parameters |-> 0,
     made |-> [op |-> NoAttr, self |-> 0, other |-> 0, operation |-> NoAttr]]

\* the SpectralModel object once self.params has been evaluated
Constructed(h, internal_graph, labels, made, ns, params) ==
    IF ~params.ok
    THEN [ok |-> FALSE, error |-> params.error, heap |-> h, model |-> NoModel]
    ELSE [ok |-> TRUE, error |-> NoAttr, heap |-> ns.heap,
          model |-> [raw_graph |-> internal_graph, graph |-> ns.ref,
                     labels |-> labels,
                     n_parameters |-> TreeSize(ns.heap[ns.ref].v),
                     made |-> made]]

\* self.params: flux under hk.transform(...).init on jnp.ones(10)
Params(graph) == Flux(graph, DefaultPars(graph), Ones, Ones, FALSE)

WithNamespace(h, internal_graph, labels, made, ns) ==
    Then(Params(ns.heap[ns.ref].v),
         LAMBDA params :
           Constructed(h, internal_graph, labels, made, ns, params))

\* SpectralModel.__init__(internal_graph, labels)
SpectralModelInit(h, internal_graph, labels, made) ==
    Then(BuildNamespace(h, internal_graph),
         LAMBDA ns : WithNamespace(h, internal_graph, labels, made, ns))

\* the graph of from_component: the component node, the output node and
\* the edge between them
FromComponentGraph(component, kwargs, node_id) ==
    AddEdge(
      AddNode(
        AddNode(EmptyGraph, node_id,
                [EmptyAttr EXCEPT !.type = "component",
                                  !.component_type = ComponentType(component),
                                  !.name = <<component>>,
                                  !.component = component,
                                  !.kwargs = kwargs,
                                  !.depth = 0]),
        OUT, [EmptyAttr EXCEPT !.type = "out", !.depth = 1]),
      node_id, OUT)

FromComponentLabels(component, node_id) ==
    [n \in {node_id, OUT} |-> IF n = OUT THEN "out" ELSE component]

\* cls(graph, labels), graph and labels being the objects g and l
Construct(g, l, made) == SpectralModelInit(l.heap, g.ref, l.ref, made)

\* SpectralModel.from_component(component, **kwargs)
FromComponent(h, component, kwargs, node_id) ==
    Then(New(h, "DiGraph", FromComponentGraph(component, kwargs, node_id)),
         LAMBDA g :
           Construct(g,
                     New(g.heap, "dict",
                         FromComponentLabels(component, node_id)),
                     [op |-> "from_component", self |-> 0, other |-> 0,
                      operation |-> NoAttr]))

\* compose, line 316: the two raw graphs joined at "out", which becomes the
\* operation node
FuseNoRelabel(G, H, node_id) == NxCompose(G, H)

Fuse(G, H, node_id) ==
    Then(NxCompose(G, H), LAMBDA R : RelabelNodes(R, OUT, node_id))

\* compose, lines 317-320: the attributes of the operation node
OperationAttr(operation) ==
    [EmptyAttr EXCEPT !.type = "operation",
                      !.operation_type = operation,
                      !.function = operation,
                      !.operation_label = IF operation = "add" THEN "+"
                                          ELSE "*"]

\* compose, lines 327-328: the new output node
AddOutput(graph, node_id) ==
    AddEdge(AddNode(graph, OUT, [EmptyAttr EXCEPT !.type = "out"]),
            node_id, OUT)

\* compose, lines 331-338: the depth of every node
RECURSIVE SetDepths(_, _, _, _)
SetDepths(graph, ns, i, longest_path) ==
    IF i > Len(ns) THEN graph
    ELSE SetDepths(
           SetNodeAttributes(graph, ns[i],
             [EmptyAttr EXCEPT !.depth =
                longest_path - ShortestPathLength(graph, ns[i], OUT)]),
           ns, i + 1, longest_path)

ComputeDepths(graph) ==
    Then(DagLongestPathLength(graph),
         LAMBDA longest_path : SetDepths(graph, graph.nodes, 1, longest_path))

ComposeGraph(G, H, operation, node_id) ==
    Then(Then(Then(Fuse(G, H, node_id),
                   LAMBDA graph : SetNodeAttributes(graph, node_id,
                                                    OperationAttr(operation))),
              LAMBDA graph : AddOutput(graph, node_id)),
         ComputeDepths)

\* dict | dict, then labels[node_id] = operation
MergeLabels(a, b, node_id, operation) ==
    [n \in DOMAIN a \cup DOMAIN b \cup {node_id} |->
       IF n = node_id THEN operation
       ELSE IF n \in DOMAIN b THEN b[n] ELSE a[n]]

\* a merge that updates the label dictionary of self
ComposeLabelsInPlace(h, self, other, node_id, operation) ==
    [heap |-> [h EXCEPT ![self.labels].v =
                 MergeLabels(@, h[other.labels].v, node_id, operation)],
     ref  |-> self.labels]

\* compose, lines 323-324: labels is a new dictionary
ComposeLabels(h, self, other, node_id, operation) ==
    New(h, "dict",
        MergeLabels(h[self.labels].v, h[other.labels].v, node_id, operation))

\* SpectralModel.compose(self, other, operation, function, name), self and
\* other being the models i and j of ms
Compose(h, ms, i, j, operation, node_id) ==
    Then(New(h, "DiGraph",
             ComposeGraph(h[ms[i].raw_graph].v, h[ms[j].raw_graph].v,
                          operation, node_id)),
         LAMBDA g :
           Construct(g,
                     ComposeLabels(g.heap, ms[i], ms[j], node_id, operation),
                     [op |-> "compose", self |-> i, other |-> j,
                      operation |-> operation]))

(***************************************************************************)
(* The state machine: the calls a program makes on the models it has built.*)
(* `last` is the outcome of the latest call, `result` the latest flux.     *)
(***************************************************************************)
\* the component constructors a program calls, with their bound kwargs
ComponentCalls ==
    {<<"powerlaw", "{}">>, <<"gauss", "{}">>, <<"tbabs", "{}">>}

Operations == {"add", "mul"}

NoCall ==
    [op |-> NoAttr, ok |-> TRUE, error |-> NoAttr, model |-> 0,
     returned |-> EmptyGraph]

NoResult == [model |-> 0, energy_flux |-> FALSE, out |-> Raised(NoAttr)]

\* the observations a fit is run on: the bin edges (e_low, e_high) of the
\* energies, the transfer matrix from bins to channels, the observed counts
Observations ==
    {[energies |-> <<<<2, 4>>, <<4, 8>>>>,
      transfer_matrix |-> <<<<1, 1>>>>,
      observed_counts |-> <<3>>],
     [energies |-> <<<<2, 4>>, <<4, 8>>>>,
      transfer_matrix |-> <<<<1, 0>>, <<0, 2>>>>,
      observed_counts |-> <<1, 2>>]}

\* no string rendered yet, no string parsed yet.  A string is the sequence
\* of its characters.
NoText == [of |-> 0, str |-> <<>>]

NoParse ==
    [string |-> <<>>, ok |-> FALSE, error |-> NoAttr, kind |-> NoAttr,
     graph |-> EmptyGraph, number |-> 0]

\* no DataPHA built yet, no Observation built yet
NoPHA == [built |-> FALSE, grouped |-> FALSE, channel |-> <<>>,
          counts |-> <<>>, flags |-> <<>>, grouping |-> <<>>]

NoObservation ==
    [built |-> FALSE, counts |-> <<>>, folded_counts |-> <<>>,
     grouping |-> <<>>]

\* no likelihood site sampled yet
NoSite ==
    [model |-> 0, jit_model |-> FALSE,
     obs |-> [energies |-> <<>>, transfer_matrix |-> <<>>,
              observed_counts |-> <<>>],
     given |-> Raised(NoAttr)]

DefaultBins == [e_low |-> <<2, 4>>, e_high |-> <<4, 8>>]

\* the binnings a program evaluates a model on: two adjacent bins, one bin,
\* two bins with a gap between them
BinsSet ==
    {DefaultBins,
     [e_low |-> <<2>>, e_high |-> <<8>>],
     [e_low |-> <<2, 8>>, e_high |-> <<4, 16>>]}

Init ==
    /\ heap = <<>>
    /\ models = <<>>
    /\ nextId = 1
    /\ last = NoCall
    /\ bins = DefaultBins
    /\ result = NoResult
    /\ site = NoSite
    /\ text = NoText
    /\ parsed = NoParse
    /\ pha = NoPHA
    /\ observation = NoObservation

\* what a constructor call leaves behind: the new model, or the exception
Call(op, r) ==
    /\ heap' = IF r.ok THEN r.heap ELSE heap
    /\ models' = IF r.ok THEN Append(models, r.model) ELSE models
    /\ nextId' = IF r.ok THEN nextId + 1 ELSE nextId
    /\ last' = [op |-> op, ok |-> r.ok, error |-> r.error,
                model |-> IF r.ok THEN Len(models) + 1 ELSE 0,
                returned |-> EmptyGraph]
    /\ UNCHANGED <<bins, result, site, text, parsed,
                 pha, observation>>

\* m = Component(**kwargs), in a run that builds at most max models
FromComponentCall(c, max) ==
    /\ Len(models) < max
    /\ Call("from_component", FromComponent(heap, c[1], c[2], nextId))

\* m = models[i] + models[j]  or  m = models[i] * models[j]
ComposeCall(i, j, operation, max) ==
    /\ Len(models) < max
    /\ Call("compose", Compose(heap, models, i, j, operation, nextId))

\* what models[i].build_namespace() leaves behind: the objects that existed
\* before the call, and the graph it returned, which nothing refers to
Resolved(i, r) ==
    /\ heap' = SubSeq(r.heap, 1, Len(heap))
    /\ last' = [op |-> "build_namespace", ok |-> TRUE, error |-> NoAttr,
                model |-> i, returned |-> r.heap[r.ref].v]
    /\ UNCHANGED <<models, nextId, bins, result, site, text, parsed,
                 pha, observation>>

\* models[i].build_namespace()
BuildNamespaceCall(i) ==
    Resolved(i, BuildNamespace(heap, models[i].raw_graph))

\* the parameters a caller passes to flux: one entry per display name, the
\* component made as node n getting the value n
NodeOfName(g, nm) == CHOOSE n \in ComponentNodes(g) : g.attr[n].name = nm

ParsOf(g) == [nm \in ModuleNames(g) |-> NodeOfName(g, nm)]

\* the resolved graph of model m
GraphOfModel(h, m) == h[m.graph].v

\* models[i].photon_flux(pars, e_low, e_high) or
\* models[i].energy_flux(pars, e_low, e_high)
FluxOf(h, m, b, energy_flux) ==
    Flux(h[m.graph].v, ParsOf(h[m.graph].v), b.e_low, b.e_high, energy_flux)

Evaluate(i, energy_flux) ==
    /\ result' = [model |-> i, energy_flux |-> energy_flux,
                  out |-> FluxOf(heap, models[i], bins, energy_flux)]
    /\ UNCHANGED <<heap, models, nextId, last, bins, site, text, parsed,
                 pha, observation>>

\* the builder: every constructor call, on any models built so far
Next ==
    \/ \E c \in ComponentCalls : FromComponentCall(c, MaxModels)
    \/ \E i \in 1..Len(models), j \in 1..Len(models), o \in Operations :
         ComposeCall(i, j, o, MaxModels)

Spec == Init /\ [][Next]_vars

\* the builder together with calls of build_namespace on the models built
NextResolve ==
    \/ \E c \in ComponentCalls : FromComponentCall(c, MaxResolved)
    \/ \E i \in 1..Len(models), j \in 1..Len(models), o \in Operations :
         ComposeCall(i, j, o, MaxResolved)
    \/ \E i \in 1..Len(models) : BuildNamespaceCall(i)

SpecResolve == Init /\ [][NextResolve]_vars

\* the builder together with flux evaluation, on every binning of BinsSet
InitFlux ==
    /\ heap = <<>>
    /\ models = <<>>
    /\ nextId = 1
    /\ last = NoCall
    /\ bins \in BinsSet
    /\ result = NoResult
    /\ site = NoSite
    /\ text = NoText
    /\ parsed = NoParse
    /\ pha = NoPHA
    /\ observation = NoObservation

NextFlux ==
    \/ \E c \in ComponentCalls : FromComponentCall(c, MaxModels)
    \/ \E i \in 1..Len(models), j \in 1..Len(models), o \in Operations :
         ComposeCall(i, j, o, MaxModels)
    \/ \E i \in 1..Len(models), energy_flux \in BOOLEAN :
         Evaluate(i, energy_flux)

SpecFlux == InitFlux /\ [][NextFlux]_vars

\* the same for the runs that build one product of two components
NextProduct ==
    \/ \E c \in ComponentCalls : FromComponentCall(c, MaxProduct)
    \/ \E i \in 1..Len(models), j \in 1..Len(models), o \in Operations :
         ComposeCall(i, j, o, MaxProduct)
    \/ \E i \in 1..Len(models), energy_flux \in BOOLEAN :
         Evaluate(i, energy_flux)

SpecProduct == InitFlux /\ [][NextProduct]_vars

\* the flux evaluated with every parameter of the model set to p
ParsAll(g, p) == [nm \in ModuleNames(g) |-> p]

\* parameter values a caller may pass besides the positive ones of ParsOf
ParamValues == {-1, 0}

EvaluateWith(i, energy_flux, p) ==
    /\ result' = [model |-> i, energy_flux |-> energy_flux,
                  out |-> Flux(GraphOfModel(heap, models[i]),
                               ParsAll(GraphOfModel(heap, models[i]), p),
                               bins.e_low, bins.e_high, energy_flux)]
    /\ UNCHANGED <<heap, models, nextId, last, bins, site, text, parsed,
                 pha, observation>>

\* bins a caller may pass although they are no binning: none at all, a bin
\* whose edges are swapped, an empty bin, bins in decreasing order
InvalidBins ==
    {[e_low |-> <<>>, e_high |-> <<>>],
     [e_low |-> <<8>>, e_high |-> <<2>>],
     [e_low |-> <<4>>, e_high |-> <<4>>],
     [e_low |-> <<4, 2>>, e_high |-> <<8, 4>>]}

\* flux evaluation on any bins and with any parameter values
InitBins ==
    /\ heap = <<>>
    /\ models = <<>>
    /\ nextId = 1
    /\ last = NoCall
    /\ bins \in BinsSet \cup InvalidBins
    /\ result = NoResult
    /\ site = NoSite
    /\ text = NoText
    /\ parsed = NoParse
    /\ pha = NoPHA
    /\ observation = NoObservation

NextBins ==
    \/ \E c \in ComponentCalls : FromComponentCall(c, MaxBins)
    \/ \E i \in 1..Len(models), j \in 1..Len(models), o \in Operations :
         ComposeCall(i, j, o, MaxBins)
    \/ \E i \in 1..Len(models), energy_flux \in BOOLEAN :
         Evaluate(i, energy_flux)
    \/ \E i \in 1..Len(models), energy_flux \in BOOLEAN, p \in ParamValues :
         EvaluateWith(i, energy_flux, p)

SpecBins == InitBins /\ [][NextBins]_vars

\* products of emission lines and absorptions: the components are Gauss()
\* and Tbabs(), composed with *, and the photon flux is evaluated
LineCalls == {c \in ComponentCalls : c[1] \in {"gauss", "tbabs"}}

NextLines ==
    \/ \E c \in LineCalls : FromComponentCall(c, MaxLines)
    \/ \E i \in 1..Len(models), j \in 1..Len(models) :
         ComposeCall(i, j, "mul", MaxLines)
    \/ \E i \in 1..Len(models) : Evaluate(i, FALSE)

SpecLines == Init /\ [][NextLines]_vars

\* the builder when the caller has a component class of its own
TypedCalls == ComponentCalls \cup {<<CallerKind, "{}">>}

NextTyped ==
    \/ \E c \in TypedCalls : FromComponentCall(c, MaxTyped)
    \/ \E i \in 1..Len(models), j \in 1..Len(models), o \in Operations :
         ComposeCall(i, j, o, MaxTyped)

SpecTyped == Init /\ [][NextTyped]_vars

(***************************************************************************)
(* fit.py: the forward model and the likelihood sites of BayesianModel.fit *)
(***************************************************************************)
\* what a function without a return statement returns
None == <<"None">>

\* self.model(*args): SpectralModel.__call__(self, pars, e_low, e_high)
\* takes three arguments and returns photon_flux(pars, e_low, e_high)
ModelCall(g, args) ==
    IF Len(args) # 3 THEN Raised("TypeError")
    ELSE Flux(g, args[1], args[2], args[3], FALSE)

\* jnp.trapz(y, x=x, axis=0) of the two rows of y and x
Trapz(y, x) ==
    [k \in 1..Len(x[1]) |-> Trapezoid(y[1][k], y[2][k], x[1][k], x[2][k])]

RECURSIVE Dot(_, _, _)
Dot(row, v, k) ==
    IF k > Len(row) THEN 0 ELSE row[k] * v[k] + Dot(row, v, k + 1)

\* transfer_matrix @ v
MatVec(matrix, v) == [c \in 1..Len(matrix) |-> Dot(matrix[c], v, 1)]

\* the smallest positive value of the numeric domain, standing for the
\* floor 1e-6 of jnp.clip(..., a_min=1e-6)
AMin == 1

\* jnp.clip(v, a_min=1e-6)
Clip(v) == [c \in 1..Len(v) |-> Max({v[c], AMin})]

\* the counts once the model has been evaluated
Folded(obs, f) ==
    IF ~f.ok THEN f
    ELSE Returned(Clip(MatVec(obs.transfer_matrix,
                              Trapz(f.flux, obs.energies))))

\* ForwardModel(model, obs)(parameters)
ForwardModelCall(g, obs, parameters) ==
    Then(ModelCall(g, <<parameters, obs.energies>>),
         LAMBDA f : Folded(obs, f))

\* obs_model(pars): the jitted lambda returns what apply returns, the
\* function defined in the else branch calls apply and returns nothing
ObsModel(jit_model, applied) ==
    IF ~applied.ok THEN applied
    ELSE IF jit_model THEN applied
    ELSE Returned(None)

\* the argument of likelihood(...) at one site
GivenToLikelihood(g, obs, jit_model) ==
    ObsModel(jit_model, ForwardModelCall(g, obs, ParsOf(g)))

\* bayesian_model() of models[i].fit(..., jit_model=jit_model) reaching the
\* site of observation obs
Fit(i, obs, jit_model) ==
    /\ site' = [model |-> i, jit_model |-> jit_model, obs |-> obs,
                given |-> GivenToLikelihood(GraphOfModel(heap, models[i]),
                                            obs, jit_model)]
    /\ UNCHANGED <<heap, models, nextId, last, bins, result, text, parsed,
                 pha, observation>>

NextFit ==
    \/ \E c \in ComponentCalls : FromComponentCall(c, MaxFit)
    \/ \E i \in 1..Len(models), j \in 1..Len(models), o \in Operations :
         ComposeCall(i, j, o, MaxFit)
    \/ \E i \in 1..Len(models), obs \in Observations, jit_model \in BOOLEAN :
         Fit(i, obs, jit_model)

SpecFit == Init /\ [][NextFit]_vars

(***************************************************************************)
(* to_string and __str__: the expression of a model as a string.           *)
(***************************************************************************)
\* component.__name__
ClassName(kind) ==
    CASE kind = "powerlaw" -> <<"P", "o", "w", "e", "r", "l", "a", "w">>
      [] kind = "gauss"    -> <<"G", "a", "u", "s", "s">>
      [] kind = "tbabs"    -> <<"T", "b", "a", "b", "s">>
      [] OTHER             -> <<"C", "o", "n", "v", "o", "l", "u", "t", "i", "o", "n">>

\* node["kwargs"].items(): the keyword arguments bound at construction
KwargItems(kwargs) == <<>>

\* ", ".join(f"{k}={v}" for k, v in kwargs.items())
RECURSIVE JoinItems(_, _)
JoinItems(items, i) ==
    IF i > Len(items) THEN <<>>
    ELSE (IF i > 1 THEN <<",", " ">> ELSE <<>>)
         \o items[i][1] \o <<"=">> \o items[i][2]
         \o JoinItems(items, i + 1)

\* the kwargs of a component between parentheses, "()" when there are none
KwargsText(kwargs) ==
    IF KwargItems(kwargs) = <<>> THEN <<"(", ")">>
    ELSE <<"(">> \o JoinItems(KwargItems(kwargs), 1) \o <<")">>

\* f" {operation} ".join(operands)
RECURSIVE JoinOperands(_, _, _)
JoinOperands(operands, operation, i) ==
    IF i > Len(operands) THEN <<>>
    ELSE (IF i > 1 THEN <<" ", operation, " ">> ELSE <<>>)
         \o operands[i] \o JoinOperands(operands, operation, i + 1)

\* build_expression(node_id)
RECURSIVE BuildExpression(_, _)
BuildExpression(g, node_id) ==
    IF g.attr[node_id].type = "component"
    THEN ClassName(g.attr[node_id].component)
         \o KwargsText(g.attr[node_id].kwargs)
    ELSE IF g.attr[node_id].type = "operation"
    THEN <<"(">>
         \o JoinOperands([k \in 1..Len(g.pred[node_id]) |->
                            BuildExpression(g, g.pred[node_id][k])],
                         g.attr[node_id].operation_label, 1)
         \o <<")">>
    ELSE BuildExpression(g, g.pred[node_id][1])

\* string[1:-1]
Slice(string) == SubSeq(string, 2, Len(string) - 1)

\* SpectralModel.__str__, which to_string returns
StrOf(g) == Slice(BuildExpression(g, OUT))

(***************************************************************************)
(* from_string: simple_eval(string, functions=model_components).  The      *)
(* string is split into tokens, parsed into a syntax tree with the         *)
(* precedence of Python: the product binds tighter than the sum and the    *)
(* difference, operators of equal precedence associate to the left; then   *)
(* the tree is evaluated.                                                  *)
(***************************************************************************)
Letters ==
    {"a", "b", "c", "d", "e", "f", "g", "h", "i", "j", "k", "l", "m", "n",
     "o", "p", "q", "r", "s", "t", "u", "v", "w", "x", "y", "z", "A", "B",
     "C", "D", "E", "F", "G", "H", "I", "J", "K", "L", "M", "N", "O", "P",
     "Q", "R", "S", "T", "U", "V", "W", "X", "Y", "Z", "_"}

Digits == {"0", "1", "2", "3", "4", "5", "6", "7", "8", "9"}

DigitValue(c) == CHOOSE n \in 0..9 : <<"0", "1", "2", "3", "4", "5", "6", "7", "8", "9">>[n + 1] = c

\* the last character of the run of characters of `among` that starts at i
RECURSIVE RunEnd(_, _, _)
RunEnd(string, i, among) ==
    IF i < Len(string) /\ string[i + 1] \in among
    THEN RunEnd(string, i + 1, among)
    ELSE i

\* int("".join(digits))
RECURSIVE NumberOf(_, _)
NumberOf(digits, n) ==
    IF n = 0 THEN 0
    ELSE 10 * NumberOf(digits, n - 1) + DigitValue(digits[n])

NameToken(string, i, j) == [t |-> "name", v |-> SubSeq(string, i, j), end |-> j]

NumberToken(string, i, j) ==
    [t |-> "num", v |-> NumberOf(SubSeq(string, i, j), j - i + 1), end |-> j]

\* the token that starts at character i
TokenAt(string, i) ==
    IF string[i] \in Letters
    THEN NameToken(string, i, RunEnd(string, i, Letters \cup Digits))
    ELSE IF string[i] \in Digits
    THEN NumberToken(string, i, RunEnd(string, i, Digits))
    ELSE [t |-> string[i], v |-> <<>>, end |-> i]

\* the tokens of the string from character i on, blanks skipped
RECURSIVE Tokens(_, _)
TokensFrom(string, token) == <<token>> \o Tokens(string, token.end + 1)

Tokens(string, i) ==
    IF i > Len(string) THEN <<>>
    ELSE IF string[i] = " " THEN Tokens(string, i + 1)
    ELSE TokensFrom(string, TokenAt(string, i))

\* syntax trees
NumNode(n) == [t |-> "num", n |-> n]
NameNode(name) == [t |-> "name", name |-> name]
CallNode(name) == [t |-> "call", name |-> name]
BinOp(op, left, right) == [t |-> "bin", op |-> op, left |-> left, right |-> right]

\* the outcome of parsing: the tree and the position of the next token
NoParseTree == [ok |-> FALSE, node |-> <<>>, pos |-> 0]
Parsed(node, pos) == [ok |-> TRUE, node |-> node, pos |-> pos]

IsToken(ts, i, t) == i <= Len(ts) /\ ts[i].t = t

RECURSIVE ParseExpr(_, _)
RECURSIVE ExprRest(_, _)
RECURSIVE TermRest(_, _)

\* "(" expr ")"
CloseParen(ts, r) ==
    IF r.ok /\ IsToken(ts, r.pos, ")") THEN Parsed(r.node, r.pos + 1)
    ELSE NoParseTree

\* a number, a name, a call without arguments, or an expression in
\* parentheses
ParseFactor(ts, i) ==
    IF IsToken(ts, i, "num") THEN Parsed(NumNode(ts[i].v), i + 1)
    ELSE IF IsToken(ts, i, "name")
    THEN (IF IsToken(ts, i + 1, "(")
          THEN (IF IsToken(ts, i + 2, ")")
                THEN Parsed(CallNode(ts[i].v), i + 3)
                ELSE NoParseTree)
          ELSE Parsed(NameNode(ts[i].v), i + 1))
    ELSE IF IsToken(ts, i, "(") THEN CloseParen(ts, ParseExpr(ts, i + 1))
    ELSE NoParseTree

TermNext(ts, left, right) ==
    IF ~right.ok THEN right
    ELSE TermRest(ts, Parsed(BinOp("*", left.node, right.node), right.pos))

\* factor ("*" factor)*
TermRest(ts, left) ==
    IF ~left.ok THEN left
    ELSE IF IsToken(ts, left.pos, "*")
    THEN TermNext(ts, left, ParseFactor(ts, left.pos + 1))
    ELSE left

ParseTerm(ts, i) == TermRest(ts, ParseFactor(ts, i))

ExprNext(ts, op, left, right) ==
    IF ~right.ok THEN right
    ELSE ExprRest(ts, Parsed(BinOp(op, left.node, right.node), right.pos))

\* term (("+" | "-") term)*
ExprRest(ts, left) ==
    IF ~left.ok THEN left
    ELSE IF IsToken(ts, left.pos, "+") \/ IsToken(ts, left.pos, "-")
    THEN ExprNext(ts, ts[left.pos].t, left, ParseTerm(ts, left.pos + 1))
    ELSE left

ParseExpr(ts, i) == ExprRest(ts, ParseTerm(ts, i))

WholeExpr(ts, r) == IF r.ok /\ r.pos = Len(ts) + 1 THEN r ELSE NoParseTree

\* ast.parse(string.strip()): the tree, or a SyntaxError
Parse(string) ==
    Then(Tokens(string, 1), LAMBDA ts : WholeExpr(ts, ParseExpr(ts, 1)))

\* model_components: the component classes by class name
ModelComponents == {"powerlaw", "gauss", "tbabs"}

Registered(name) == \E kind \in ModelComponents : ClassName(kind) = name

KindOfClass(name) ==
    CHOOSE kind \in ModelComponents : ClassName(kind) = name

\* the value of a subexpression: a number or a model, with the heap and the
\* next fresh identifier after its evaluation; or the exception
EvalError(e) ==
    [ok |-> FALSE, error |-> e, kind |-> NoAttr, heap |-> <<>>,
     model |-> NoModel, number |-> 0, id |-> 0]

NumberValue(h, id, n) ==
    [ok |-> TRUE, error |-> NoAttr, kind |-> "number", heap |-> h,
     model |-> NoModel, number |-> n, id |-> id]

\* the model a constructor returned, or its exception
ModelValue(r, id) ==
    IF ~r.ok THEN EvalError(r.error)
    ELSE [ok |-> TRUE, error |-> NoAttr, kind |-> "model", heap |-> r.heap,
          model |-> r.model, number |-> 0, id |-> id + 1]

\* operator.add, operator.mul, operator.sub on two numbers
Arithmetic(op, x, y) ==
    CASE op = "+" -> x + y
      [] op = "*" -> x * y
      [] OTHER    -> x - y

\* operators[type(node.op)](left, right): SpectralModel defines __add__ and
\* __mul__ only, and compose reads other.raw_graph
ApplyOperator(op, left, right) ==
    IF left.kind = "number" /\ right.kind = "number"
    THEN NumberValue(right.heap, right.id,
                     Arithmetic(op, left.number, right.number))
    ELSE IF left.kind = "number" \/ op = "-" THEN EvalError("TypeError")
    ELSE IF right.kind = "number" THEN EvalError("AttributeError")
    ELSE ModelValue(Compose(right.heap, <<left.model, right.model>>, 1, 2,
                            IF op = "+" THEN "add" ELSE "mul", right.id),
                    right.id)

RECURSIVE Eval(_, _, _)
EvalRight(node, left, right) ==
    IF ~right.ok THEN right ELSE ApplyOperator(node.op, left, right)

EvalLeft(node, left) ==
    IF ~left.ok THEN left
    ELSE EvalRight(node, left, Eval(left.heap, left.id, node.right))

\* SimpleEval._eval(node)
Eval(h, id, node) ==
    IF node.t = "num" THEN NumberValue(h, id, node.n)
    ELSE IF node.t = "name" THEN EvalError("NameNotDefined")
    ELSE IF node.t = "call"
    THEN (IF Registered(node.name)
          THEN ModelValue(FromComponent(h, KindOfClass(node.name), "{}", id),
                          id)
          ELSE EvalError("FunctionNotDefined"))
    ELSE Then(Eval(h, id, node.left), LAMBDA left : EvalLeft(node, left))

EvalTree(h, id, tree) ==
    IF ~tree.ok THEN EvalError("SyntaxError")
    ELSE Eval(h, id, tree.node)

\* SpectralModel.from_string(string)
FromString(h, id, string) ==
    Then(Parse(string), LAMBDA tree : EvalTree(h, id, tree))

\* the strings a program parses besides those to_string returned
Inputs ==
    {<<"T", "b", "a", "b", "s", "(", ")", "*", "(", "P", "o", "w", "e", "r", "l", "a", "w", "(", ")", " ", "+", " ", "G", "a", "u", "s", "s", "(", ")", ")">>,
     <<"P", "o", "w", "e", "r", "l", "a", "w", "(", ")">>,
     <<"1", " ", "+", " ", "2">>,
     <<"F", "o", "o", "(", ")">>,
     <<"P", "o", "w", "e", "r", "l", "a", "w", "(", ")", " ", "-", " ", "G", "a", "u", "s", "s", "(", ")">>,
     <<"P", "o", "w", "e", "r", "l", "a", "w", "(">>}

\* text = models[i].to_string()
ToStringCall(i) ==
    /\ text' = [of |-> i, str |-> StrOf(GraphOfModel(heap, models[i]))]
    /\ UNCHANGED <<heap, models, nextId, last, bins, result, site, parsed,
                 pha, observation>>

\* what SpectralModel.from_string(string) returned, held by value: the
\* graph of the model, or the number, or the exception
Outcome(string, value) ==
    [string |-> string, ok |-> value.ok, error |-> value.error,
     kind |-> value.kind,
     graph |-> IF value.ok /\ value.kind = "model"
               THEN value.heap[value.model.graph].v ELSE EmptyGraph,
     number |-> value.number]

\* SpectralModel.from_string(string); the program keeps the value and drops
\* the model object, so that its identifiers are free again
FromStringCall(string) ==
    /\ parsed' = Outcome(string, FromString(heap, nextId, string))
    /\ UNCHANGED <<heap, models, nextId, last, bins, result, site, text,
                 pha, observation>>

NextString ==
    \/ \E c \in ComponentCalls : FromComponentCall(c, MaxString)
    \/ \E i \in 1..Len(models), j \in 1..Len(models), o \in Operations :
         ComposeCall(i, j, o, MaxString)
    \/ \E i \in 1..Len(models) : ToStringCall(i)
    \/ \E string \in Inputs : FromStringCall(string)
    \/ text.of # 0 /\ FromStringCall(text.str)

SpecString == Init /\ [][NextString]_vars

(***************************************************************************)
(* ogip.py and observation.py: the grouping matrix of a PHA dataset.  A    *)
(* matrix is the sequence of its rows.  Channels are numbered from 1 here, *)
(* from 0 in numpy.                                                        *)
(***************************************************************************)
\* np.where(grouping == 1)[0]
RECURSIVE Where(_, _)
Where(grouping, i) ==
    IF i > Len(grouping) THEN <<>>
    ELSE (IF grouping[i] = 1 THEN <<i>> ELSE <<>>) \o Where(grouping, i + 1)

\* np.hstack((b_grp[1:], len(channel)))
EndOfGroups(b_grp, channel) == Tail(b_grp) \o <<Len(channel) + 1>>

\* row i of grp_matrix: zeros, then grp_matrix[i, b_grp[i]:e_grp[i]] = 1
GroupRow(b, e, channel) ==
    [c \in 1..Len(channel) |-> IF b <= c /\ c < e THEN 1 ELSE 0]

GroupMatrix(b_grp, e_grp, channel) ==
    [i \in 1..Len(b_grp) |-> GroupRow(b_grp[i], e_grp[i], channel)]

\* np.eye(len(channel))
Eye(n) == [i \in 1..n |-> [c \in 1..n |-> IF i = c THEN 1 ELSE 0]]

\* grp_matrix of DataPHA.__init__
GrpMatrix(channel, grouped, grouping) ==
    IF grouped
    THEN Then(Where(grouping, 1),
              LAMBDA b_grp :
                GroupMatrix(b_grp,
                            IF b_grp = <<>> THEN <<Len(channel) + 1>>
                            ELSE EndOfGroups(b_grp, channel),
                            channel))
    ELSE Eye(Len(channel))

\* the PHA datasets a program loads: every channel has a count, and the
\* GROUPING column, when the file has one, a flag of the OGIP standard
\* (1 start of a group, -1 continuation, 0 grouping undefined)
Channels(n) == [c \in 1..n |-> c]

GroupingFlags == {-1, 0, 1}

\* pha = DataPHA(channel, counts, exposure, grouping=grouping), in a run that
\* loads one dataset
DataPHAInit(channel, counts, grouped, grouping) ==
    /\ ~pha.built
    /\ pha' = [built |-> TRUE, grouped |-> grouped, channel |-> channel,
               counts |-> counts, flags |-> grouping,
               grouping |-> GrpMatrix(channel, grouped, grouping)]
    /\ UNCHANGED <<heap, models, nextId, last, bins, result, site, text,
                   parsed, observation>>

\* np.array(grouping, dtype=bool)
AsBool(matrix) ==
    [i \in 1..Len(matrix) |->
       [c \in 1..Len(matrix[i]) |-> IF matrix[i][c] # 0 THEN 1 ELSE 0]]

\* Observation.from_matrix(pha.counts, pha.grouping, pha.channel, ...)
FromMatrix ==
    /\ pha.built
    /\ observation' = [built |-> TRUE, counts |-> pha.counts,
                       folded_counts |-> MatVec(pha.grouping, pha.counts),
                       grouping |-> AsBool(pha.grouping)]
    /\ UNCHANGED <<heap, models, nextId, last, bins, result, site, text,
                   parsed, pha>>

NextPHA ==
    \/ \E n \in 1..MaxChannels :
         \E counts \in [1..n -> 0..MaxCounts] :
           DataPHAInit(Channels(n), counts, FALSE, <<>>)
    \/ \E n \in 1..MaxChannels :
         \E counts \in [1..n -> 0..MaxCounts], grouping \in [1..n -> GroupingFlags] :
           DataPHAInit(Channels(n), counts, TRUE, grouping)
    \/ FromMatrix

SpecPHA == Init /\ [][NextPHA]_vars

(***************************************************************************)
(* Properties of the builder, checked under Spec (C7 under SpecResolve).   *)
(***************************************************************************)
ModelIds == 1..Len(models)

RawGraphOf(i) == heap[models[i].raw_graph].v

GraphOf(i) == heap[models[i].graph].v

GraphsOf(i) == {RawGraphOf(i), GraphOf(i)}

Composed(i) == models[i].made.op = "compose"

\* the components the two operands of the composed model i have in common
SharedComponents(i) ==
    ComponentNodes(RawGraphOf(models[i].made.self))
      \cap ComponentNodes(RawGraphOf(models[i].made.other))

OutDegree(g, n) == Len(g.succ[n])

Sinks(g) == {n \in NodeSet(g) : OutDegree(g, n) = 0}

\* every node is in some generation of the topological sort
Acyclic(g) == Len(TopologicalSort(g)) = Len(g.nodes)

WellFormed(g) ==
    /\ Sinks(g) = {OUT}
    /\ InDegree(g, OUT) = 1
    /\ OutDegree(g, OUT) = 0
    /\ Acyclic(g)
    /\ \A n \in NodeSet(g) \ {OUT} :
         ShortestPathLength(g, n, OUT) # Unreachable

\* C1: in every model built by from_component and compose calls, the raw
\* and the resolved graph have exactly one sink, "out", of in-degree 1 and
\* out-degree 0, are acyclic, and every other node has a path to "out".
C1_OneSinkAcyclic ==
    \A i \in ModelIds : \A g \in GraphsOf(i) : WellFormed(g)

\* a model composed from a composed model and a model that shares a
\* component with it
C1_Witness ==
    \E i \in ModelIds :
      /\ Composed(i)
      /\ Composed(models[i].made.self)
      /\ SharedComponents(i) # {}

OperationNodes(g) == {n \in NodeSet(g) : g.attr[n].type = "operation"}

\* C2: in every model built by from_component and compose calls, the
\* operands being any models built before, every operation node has exactly
\* two inbound edges.
C2_TwoInboundEdges ==
    \A i \in ModelIds : \A g \in GraphsOf(i) :
      \A n \in OperationNodes(g) : InDegree(g, n) = 2

\* a model with two operation nodes, whose second operand holds a component
\* of the first
C2_Witness ==
    \E i \in ModelIds :
      /\ Composed(i)
      /\ Composed(models[i].made.other)
      /\ SharedComponents(i) # {}
      /\ Cardinality(OperationNodes(GraphOf(i))) = 2

\* C3: compose(A, B, op) does not fail, whatever models A and B are, the
\* same model twice included.
C3_ComposeNeverFails == last.op = "compose" => last.ok

\* C4: a compose call leaves its operands as they were: the raw graph, the
\* resolved graph and the labels of self and of other, and the two model
\* objects.
OperandObjects(m) == {m.raw_graph, m.graph, m.labels}

OperandsUntouched(self, other) ==
    /\ models'[self] = models[self]
    /\ models'[other] = models[other]
    /\ \A r \in OperandObjects(models[self]) \cup OperandObjects(models[other]) :
         heap'[r] = heap[r]

C4_ComposeKeepsOperands ==
    [][(last'.op = "compose" /\ last'.ok /\ Len(models') = Len(models) + 1)
         => OperandsUntouched(models'[Len(models')].made.self,
                              models'[Len(models')].made.other)]_vars

\* a compose call of two different models has returned
C4_Witness ==
    /\ last.op = "compose"
    /\ last.ok
    /\ models[last.model].made.self # models[last.model].made.other
    /\ Composed(models[last.model].made.self)

\* C5: in the resolved graph of every model the display names of the
\* component nodes are pairwise distinct.
C5_NamesDistinct ==
    \A i \in ModelIds :
      \A n1 \in ComponentNodes(GraphOf(i)), n2 \in ComponentNodes(GraphOf(i)) :
        n1 # n2 => GraphOf(i).attr[n1].name # GraphOf(i).attr[n2].name

\* a model with two components of the same kind
SameKindTwice(g) ==
    \E n1 \in ComponentNodes(g), n2 \in ComponentNodes(g) :
      n1 # n2 /\ g.attr[n1].component = g.attr[n2].component

C5_Witness == \E i \in ModelIds : SameKindTwice(GraphOf(i))

\* the number of components of the kind of order[i] among order[1..i]
KindRank(g, order, i) ==
    Cardinality({j \in 1..i :
                   /\ g.attr[order[j]].type = "component"
                   /\ g.attr[order[j]].component = g.attr[order[i]].component})

\* every component is named kind_k, k counting its kind along the
\* topological order of the graph
NamedInOrder(raw, g, order) ==
    \A i \in 1..Len(order) :
      g.attr[order[i]].type = "component" =>
        /\ raw.attr[order[i]].name = <<g.attr[order[i]].component>>
        /\ g.attr[order[i]].name =
             <<g.attr[order[i]].component, KindRank(g, order, i)>>

OfKind(g, kind) == {n \in ComponentNodes(g) : g.attr[n].component = kind}

\* the suffixes of each kind are 1..n, n being the components of the kind
SuffixesComplete(g) ==
    \A kind \in Kinds :
      {g.attr[n].name[Len(g.attr[n].name)] : n \in OfKind(g, kind)}
        = 1..Cardinality(OfKind(g, kind))

NamedByCount ==
    \A i \in ModelIds :
      /\ NamedInOrder(RawGraphOf(i), GraphOf(i), TopologicalSort(GraphOf(i)))
      /\ SuffixesComplete(GraphOf(i))

\* C6, as the code has it: every component is named kind_k, k being the
\* 1-based count of its kind in the topological order networkx yields, so
\* the suffixes of a kind are exactly 1..n.  In that order, nodes of the
\* same generation come in the order of their insertion.
C6_NamedByTopologicalCount == NamedByCount

\* a model with two components of one kind, whose insertion order is the
\* order of the operands
C6_Witness ==
    \E i \in ModelIds :
      /\ Composed(i)
      /\ SameKindTwice(GraphOf(i))
      /\ SharedComponents(i) = {}

\* the structure of the graph below node n: the component nodes and the
\* operations applied to them, without any order of insertion
RECURSIVE Shape(_, _)
Shape(g, n) ==
    [node |-> IF g.attr[n].type = "component" THEN n ELSE OUT,
     op   |-> g.attr[n].operation_type,
     args |-> {Shape(g, m) : m \in Range(g.pred[n])}]

\* two models of the same structure give the same name to every component
NamesFollowStructure ==
    \A i \in ModelIds, j \in ModelIds :
      Shape(GraphOf(i), OUT) = Shape(GraphOf(j), OUT) =>
        \A n \in ComponentNodes(GraphOf(i)) :
          GraphOf(i).attr[n].name = GraphOf(j).attr[n].name

\* C6, as the specification has it: the names are kind_k along the
\* topological order and depend on the structure of the graph only, not on
\* the order in which the nodes were inserted.
C6_NamesIgnoreInsertionOrder == NamedByCount /\ NamesFollowStructure

\* the display names of graph g: a single numeric suffix after the kind
SingleSuffix(g) ==
    \A n \in ComponentNodes(g) :
      /\ Len(g.attr[n].name) = 2
      /\ g.attr[n].name[1] = g.attr[n].component
      /\ g.attr[n].name[2] \in 1..Len(g.nodes)

SameNames(g1, g2) ==
    /\ ComponentNodes(g1) = ComponentNodes(g2)
    /\ \A n \in ComponentNodes(g1) : g1.attr[n].name = g2.attr[n].name

AllSingleSuffix == \A i \in ModelIds : SingleSuffix(GraphOf(i))

\* C7: build_namespace called again on a model returns the display names
\* the model already has and leaves every object, raw_graph included, as
\* it was; and in every model, composed of resolved models or not, a name
\* is kind_k with a single suffix.
C7_ResolverIdempotent ==
    [][/\ last'.op = "build_namespace" =>
            /\ heap' = heap
            /\ SameNames(last'.returned, GraphOf(last'.model))
       /\ AllSingleSuffix']_vars

\* build_namespace called again on a model composed of two resolved models
\* with components of one kind
C7_Witness ==
    /\ last.op = "build_namespace"
    /\ Composed(last.model)
    /\ SameKindTwice(last.returned)

\* C8: the parameter count of a composed model is the sum of the parameter
\* counts of its two operands.
C8_ParameterCountAdds ==
    \A i \in ModelIds :
      Composed(i) =>
        models[i].n_parameters
          = models[models[i].made.self].n_parameters
            + models[models[i].made.other].n_parameters

(***************************************************************************)
(* Properties of the flux, checked under SpecFlux (C10 under SpecProduct). *)
(***************************************************************************)
\* the latest evaluation was of a composed model with this operation
EvaluatedComposed(operation) ==
    /\ result.model # 0
    /\ Composed(result.model)
    /\ models[result.model].made.operation = operation

\* the flux of the left and of the right operand of the evaluated model,
\* on the same bins and in the same mode
FluxOfSelf ==
    FluxOf(heap, models[models[result.model].made.self], bins,
           result.energy_flux)

FluxOfOther ==
    FluxOf(heap, models[models[result.model].made.other], bins,
           result.energy_flux)

FluxAdds(out, a, b) ==
    /\ out.ok
    /\ a.ok
    /\ b.ok
    /\ out.flux = AddBins(a.flux, b.flux)

\* C9: the flux of A + B is, bin by bin, the flux of A plus the flux of B,
\* in photon and in energy mode, fine structure included.
C9_FluxAdds ==
    EvaluatedComposed("add") => FluxAdds(result.out, FluxOfSelf, FluxOfOther)

\* the model i is Component() for a component of this kind
IsComponent(i, kind) ==
    /\ models[i].made.op = "from_component"
    /\ \A n \in ComponentNodes(GraphOf(i)) :
         GraphOf(i).attr[n].component = kind

\* the latest evaluation was of Tbabs() * Powerlaw()
EvaluatedTbabsPowerlaw ==
    /\ EvaluatedComposed("mul")
    /\ IsComponent(models[result.model].made.self, "tbabs")
    /\ IsComponent(models[result.model].made.other, "powerlaw")

FluxMultiplies(out, a, b) ==
    /\ out.ok
    /\ a.ok
    /\ b.ok
    /\ out.flux = [k \in 1..Len(a.flux) |-> a.flux[k] * b.flux[k]]

\* C10, as the specification has it: the flux of Tbabs() * Powerlaw() is,
\* bin by bin, the flux of Tbabs() alone times the flux of Powerlaw() alone.
C10_FluxOfProductIsProductOfFluxes ==
    EvaluatedTbabsPowerlaw =>
      FluxMultiplies(result.out, FluxOfSelf, FluxOfOther)

\* the points at which flux evaluates the continuum
Energies(b) == b.e_low \o <<b.e_high[Len(b.e_high)]>>

\* the continuum of the only component of model i at those points
ContinuumOf(i, b) ==
    ComponentContinuum(
      GraphOf(i).attr[CHOOSE n \in ComponentNodes(GraphOf(i)) : TRUE],
      ParsOf(GraphOf(i)), Energies(b))

\* the flux of every bin when the continuum at the points is c1 * c2
FluxOfProductCurve(c1, c2, b, energy_flux) ==
    [k \in 1..Len(b.e_low) |->
       ContinuumFlux([j \in 1..Len(c1) |-> c1[j] * c2[j]],
                     b.e_low, b.e_high, k, energy_flux)]

\* C10, as the code has it: the continuum of Tbabs() * Powerlaw() at the
\* points of evaluation is the product of the two continua, and the flux of
\* a bin is the trapezoid in log-energy of that product.
C10_FluxIntegratesProduct ==
    EvaluatedTbabsPowerlaw =>
      /\ result.out.ok
      /\ result.out.flux =
           FluxOfProductCurve(
             ContinuumOf(models[result.model].made.self, bins),
             ContinuumOf(models[result.model].made.other, bins),
             bins, result.energy_flux)

\* Tbabs() * Powerlaw() evaluated in energy mode on two bins
C10_Witness ==
    /\ EvaluatedTbabsPowerlaw
    /\ result.energy_flux
    /\ result.out.ok
    /\ Len(bins.e_low) = 2

(***************************************************************************)
(* Properties of the flux on any bins and parameters, checked under        *)
(* SpecBins.                                                               *)
(***************************************************************************)
Evaluated == result.model # 0

\* C11: every value photon_flux and energy_flux return is at least the
\* positive floor, whatever the parameters are.
C11_FluxAboveFloor ==
    (Evaluated /\ result.out.ok) =>
      \A k \in 1..Len(result.out.flux) : result.out.flux[k] >= AMin

\* bins are valid when there is one at least, each has e_low < e_high, and
\* they come in increasing order
ValidBins(b) ==
    /\ Len(b.e_low) > 0
    /\ Len(b.e_low) = Len(b.e_high)
    /\ \A k \in 1..Len(b.e_low) : b.e_low[k] < b.e_high[k]
    /\ \A k \in 1..(Len(b.e_low) - 1) : b.e_high[k] <= b.e_low[k + 1]

\* C17: on bins that are empty or not strictly increasing the flux
\* evaluation fails with InvalidBinsError and returns no values.
C17_InvalidBinsRejected ==
    (Evaluated /\ ~ValidBins(bins)) =>
      /\ ~result.out.ok
      /\ result.out.error = "InvalidBinsError"

(***************************************************************************)
(* Properties of the fine structure, checked under SpecLines.              *)
(***************************************************************************)
\* the multiplicative components of which the subexpression of node n is the
\* product
RECURSIVE Factors(_, _)
Factors(g, n) ==
    IF g.attr[n].component_type = "multiplicative" THEN <<n>>
    ELSE IF g.attr[n].operation_type = "mul" /\ Len(g.pred[n]) = 2
    THEN Factors(g, g.pred[n][1]) \o Factors(g, g.pred[n][2])
    ELSE <<>>

\* the operand of the operation node n that is not node m
OtherOperand(g, n, m) == CHOOSE o \in Range(g.pred[n]) : o # m

\* the multiplicative components that multiply a subexpression containing
\* path[1], each once: at every multiplication on the path, the factors of
\* the operand that does not hold path[1]
RECURSIVE ScalersOnce(_, _, _)
ScalersOnce(g, path, i) ==
    IF i > Len(path) THEN <<>>
    ELSE (IF g.attr[path[i]].operation_type = "mul"
             /\ Cardinality(Range(g.pred[path[i]])) = 2
          THEN Factors(g, OtherOperand(g, path[i], path[i - 1]))
          ELSE <<>>)
         \o ScalersOnce(g, path, i + 1)

\* the fine-structure flux when each line is scaled by ScalersOnce
RECURSIVE LinesScaledOnce(_, _, _, _, _, _)
LinesScaledOnce(g, pars, roots, i, b, energy_flux) ==
    IF i > Len(roots) THEN [k \in 1..Len(b.e_low) |-> 0]
    ELSE AddBins(
           LineFlux(g, pars, g.attr[roots[i]],
                    ScalersOnce(g, PathOf(g, roots[i]), 2),
                    b.e_low, b.e_high, energy_flux),
           LinesScaledOnce(g, pars, roots, i + 1, b, energy_flux))

\* the continuum curve of graph g at the points of evaluation
CurveOf(g, b) ==
    ContinuumPass(g, ParsOf(g), Energies(b), TopologicalSort(g), 1,
                  <<>>).flux[g.pred[OUT][1]]

\* the flux of graph g when each line is scaled by ScalersOnce
FluxScaledOnce(g, b, energy_flux) ==
    TotalFlux(CurveOf(g, b),
              LinesScaledOnce(g, ParsOf(g), RootNodes(g), 1, b, energy_flux),
              b.e_low, b.e_high, energy_flux).flux

\* C12: the line flux of every root is multiplied by the continuum, at the
\* mean energy of the bin, of exactly the multiplicative components that
\* multiply a subexpression containing the root, each exactly once.
C12_LinesScaledOnce ==
    (Evaluated /\ result.out.ok) =>
      result.out.flux =
        FluxScaledOnce(GraphOf(result.model), bins, result.energy_flux)

(***************************************************************************)
(* The integration of the continuum over each bin, checked under           *)
(* SpecProduct.                                                            *)
(***************************************************************************)
\* the continuum curve of graph g at the given energies
CurveAt(g, energies) ==
    ContinuumPass(g, ParsOf(g), energies, TopologicalSort(g), 1,
                  <<>>).flux[g.pred[OUT][1]]

\* the trapezoid in log-energy of bin k between the continuum at e_low[k]
\* and the continuum at e_high[k]
BinTrapezoid(g, b, k, energy_flux) ==
    ContinuumFlux(<<CurveAt(g, b.e_low)[k], CurveAt(g, b.e_high)[k]>>,
                  <<b.e_low[k]>>, <<b.e_high[k]>>, 1, energy_flux)

\* the fine-structure flux of graph g
FineOf(g, b, energy_flux) ==
    FineStructuresFlux(g, ParsOf(g), RootNodes(g), 1, b.e_low, b.e_high,
                       energy_flux)

\* C18: on valid bins, contiguous or not, the integrated continuum of bin k
\* is the log-energy trapezoid between the continuum at e_low[k] and the
\* continuum at e_high[k] of that same bin.
C18_BinIntegratesOwnEdges ==
    (Evaluated /\ ValidBins(bins)) =>
      /\ result.out.ok
      /\ \A k \in 1..Len(bins.e_low) :
           result.out.flux[k]
             - FineOf(GraphOf(result.model), bins, result.energy_flux)[k]
           = BinTrapezoid(GraphOf(result.model), bins, k, result.energy_flux)

(***************************************************************************)
(* The depth of the nodes, checked under Spec.                             *)
(***************************************************************************)
DepthOf(g, n) == g.attr[n].depth

\* depth is the longest path length minus the distance to the sink
DepthByDistance(g) ==
    \A n \in NodeSet(g) :
      DepthOf(g, n)
        = DagLongestPathLength(g) - ShortestPathLength(g, n, OUT)

\* the sink is the deepest node and every depth lies in 0..L
DepthInRange(g) ==
    /\ DepthOf(g, OUT) = DagLongestPathLength(g)
    /\ \A n \in NodeSet(g) : DepthOf(g, n) \in 0..DagLongestPathLength(g)

SomeComponentAtZero(g) == \E n \in ComponentNodes(g) : DepthOf(g, n) = 0

DepthIncreasesAlongEdges(g) ==
    \A n \in NodeSet(g) :
      \A m \in Range(g.succ[n]) : DepthOf(g, n) < DepthOf(g, m)

\* C19: in every model each node's depth is L minus its shortest path length
\* to the sink, L being the longest path length; the sink has depth L, some
\* component has depth 0, every depth is in 0..L, and depth strictly
\* increases along every edge.
C19_DepthLayers ==
    \A i \in ModelIds :
      \A g \in GraphsOf(i) :
        /\ DepthByDistance(g)
        /\ DepthInRange(g)
        /\ SomeComponentAtZero(g)
        /\ DepthIncreasesAlongEdges(g)

(***************************************************************************)
(* The type of a component, checked under SpecTyped.                       *)
(***************************************************************************)
ValidTypes == {"additive", "multiplicative"}

\* C16: from_component on a component whose type is neither additive nor
\* multiplicative fails with InvalidComponentError and creates no model.
C16_InvalidComponentRejected ==
    [][\A c \in TypedCalls :
         (ComponentType(c[1]) \notin ValidTypes
            /\ FromComponentCall(c, MaxTyped))
         => /\ ~last'.ok
            /\ last'.error = "InvalidComponentError"
            /\ models' = models]_vars

(***************************************************************************)
(* The likelihood sites of a fit, checked under SpecFit.                   *)
(***************************************************************************)
\* the expected counts of graph g for observation obs: the photon flux over
\* the bins of the observation, folded through the transfer matrix and
\* clipped
ExpectedCounts(g, obs) ==
    Clip(MatVec(obs.transfer_matrix,
                Flux(g, ParsOf(g), obs.energies[1], obs.energies[2],
                     FALSE).flux))

\* C20: the value given to the likelihood of a site is the expected counts
\* of the forward model for the sampled parameters, and it is the same with
\* jit_model true and jit_model false.
C20_LikelihoodGivenExpectedCounts ==
    site.model # 0 =>
      /\ site.given.ok
      /\ site.given.flux = ExpectedCounts(GraphOf(site.model), site.obs)
      /\ GivenToLikelihood(GraphOf(site.model), site.obs, TRUE)
           = GivenToLikelihood(GraphOf(site.model), site.obs, FALSE)

(***************************************************************************)
(* The string form of a model, checked under SpecString.                   *)
(***************************************************************************)
\* the expression of the subgraph that ends at node n: the kind and kwargs
\* of a component, the operation and the operand expressions, in operand
\* order, of an operation
RECURSIVE ExpressionOf(_, _)
ExpressionOf(g, n) ==
    IF g.attr[n].type = "component"
    THEN <<"component", g.attr[n].component, g.attr[n].kwargs>>
    ELSE IF g.attr[n].type = "operation"
    THEN <<"operation", g.attr[n].operation_type,
           [k \in 1..Len(g.pred[n]) |-> ExpressionOf(g, g.pred[n][k])]>>
    ELSE ExpressionOf(g, g.pred[n][1])

\* parameters that depend on the display name of the module only
ParsByName(g) == [nm \in ModuleNames(g) |-> Len(nm[1]) + nm[2]]

\* two graphs with the same modules and the same flux on every binning
SameFlux(g1, g2) ==
    /\ ModuleNames(g1) = ModuleNames(g2)
    /\ \A b \in BinsSet, energy_flux \in BOOLEAN :
         Flux(g1, ParsByName(g1), b.e_low, b.e_high, energy_flux)
           = Flux(g2, ParsByName(g1), b.e_low, b.e_high, energy_flux)

\* from_string was applied to the string to_string returned for a model
RoundTripped == text.of # 0 /\ parsed.string = text.str

\* C13: from_string(to_string(m)) succeeds for every model m, the
\* single-component ones included, and yields a model with the expression
\* structure of m and the flux of m.
C13_RoundTrip ==
    RoundTripped =>
      /\ parsed.ok
      /\ parsed.kind = "model"
      /\ ExpressionOf(parsed.graph, OUT) = ExpressionOf(GraphOf(text.of), OUT)
      /\ SameFlux(GraphOf(text.of), parsed.graph)

\* Kind(key=value, ...) for a component, (left SYMBOL right) for an
\* operation
RECURSIVE Rendered(_, _)
Rendered(g, n) ==
    IF g.attr[n].type = "component"
    THEN ClassName(g.attr[n].component) \o KwargsText(g.attr[n].kwargs)
    ELSE <<"(">> \o Rendered(g, g.pred[n][1])
         \o <<" ", g.attr[n].operation_label, " ">>
         \o Rendered(g, g.pred[n][Len(g.pred[n])]) \o <<")">>

\* the rendering of the whole model: the outer parentheses of an operation
\* are removed, a single component is left as it is
Canonical(g) ==
    IF g.attr[g.pred[OUT][1]].type = "operation"
    THEN Slice(Rendered(g, g.pred[OUT][1]))
    ELSE Rendered(g, g.pred[OUT][1])

DocExample == <<"T", "b", "a", "b", "s", "(", ")", "*", "(", "P", "o", "w", "e", "r", "l", "a", "w", "(", ")", " ", "+", " ", "G", "a", "u", "s", "s", "(", ")", ")">>

\* C14: to_string renders a component as Kind(...), an operation as
\* (left SYMBOL right) in operand order, with only the outer parentheses
\* removed, a single-component model as Kind(...); and the string
\* "Tbabs()*(Powerlaw() + Gauss())" parsed and rendered again is itself.
C14_CanonicalRendering ==
    /\ text.of # 0 => text.str = Canonical(GraphOf(text.of))
    /\ (parsed.string = DocExample /\ parsed.ok /\ parsed.kind = "model")
         => StrOf(parsed.graph) = DocExample

\* a tree made of binary + and *, and calls of components, only
RECURSIVE ModelSyntax(_)
ModelSyntax(node) ==
    IF node.t = "call" THEN TRUE
    ELSE IF node.t = "bin"
    THEN /\ node.op \in {"+", "*"}
         /\ ModelSyntax(node.left)
         /\ ModelSyntax(node.right)
    ELSE FALSE

\* every component called in the tree is registered
RECURSIVE AllRegistered(_)
AllRegistered(node) ==
    IF node.t = "call" THEN Registered(node.name)
    ELSE AllRegistered(node.left) /\ AllRegistered(node.right)

Accepted(tree) == tree.ok /\ ModelSyntax(tree.node)

\* what the claim has from_string do with a string whose tree is `tree`
AsClaimed(tree, outcome) ==
    IF ~Accepted(tree)
    THEN ~outcome.ok /\ outcome.error = "ParseError"
    ELSE IF ~AllRegistered(tree.node)
    THEN ~outcome.ok /\ outcome.error = "UnknownComponentError"
    ELSE outcome.ok /\ outcome.kind = "model"

\* C15: from_string yields a model for an expression of +, *, parentheses
\* and registered component calls, fails with UnknownComponentError on an
\* unknown component, and rejects anything else with ParseError instead of
\* evaluating it to a value that is no model.
C15_OnlyModelExpressions ==
    parsed # NoParse => AsClaimed(Parse(parsed.string), parsed)

(***************************************************************************)
(* The grouping matrix, checked under SpecPHA.                             *)
(***************************************************************************)
\* the channels of a row of the matrix
ChannelsOf(row) == {c \in 1..Len(row) : row[c] # 0}

\* a non-empty run of consecutive channels
ContiguousRun(S) ==
    /\ S # {}
    /\ \A c \in Min(S)..Max(S) : c \in S

\* the rows are non-empty runs, pairwise disjoint, and cover every channel
Partitions(matrix, n) ==
    /\ \A i \in 1..Len(matrix) : ContiguousRun(ChannelsOf(matrix[i]))
    /\ \A i, j \in 1..Len(matrix) :
         i # j => ChannelsOf(matrix[i]) \cap ChannelsOf(matrix[j]) = {}
    /\ \A c \in 1..n :
         Cardinality({i \in 1..Len(matrix) : c \in ChannelsOf(matrix[i])}) = 1

RECURSIVE Total(_, _)
Total(v, i) == IF i > Len(v) THEN 0 ELSE v[i] + Total(v, i + 1)

\* C21: the rows of the grouping matrix DataPHA builds partition the
\* channels into non-empty contiguous runs, whatever the grouping vector, so
\* that grouping @ counts keeps the total of the counts; without a grouping
\* vector the matrix is the identity.
C21_GroupingPartitions ==
    /\ pha.built =>
         /\ Partitions(pha.grouping, Len(pha.channel))
         /\ Total(MatVec(pha.grouping, pha.counts), 1) = Total(pha.counts, 1)
         /\ ~pha.grouped => pha.grouping = Eye(Len(pha.channel))
    /\ observation.built =>
         Total(observation.folded_counts, 1) = Total(observation.counts, 1)

====
